---- MODULE Spec2Model ----
(***************************************************************************)
(* Model of service/flow_helpers/account.go: the process-wide account      *)
(* registry (GetAccount), the key rotator (Account.KeyIndex), the sequence *)
(* number allocator (getSeqNum) and their composition                      *)
(* (Account.GetProposalKey), run by concurrent goroutines.                 *)
(*                                                                         *)
(* A uint64 is represented by the integer with the same 64-bit pattern in  *)
(* two's complement: n >= 0 stands for the value n, and n < 0 stands for   *)
(* the value 2^64 + n (so -1 is the largest uint64, 2^64 - 1).  In this    *)
(* representation the Go increment x++ is n + 1 (the step from -1 to 0 is  *)
(* the wrap-around from 2^64 - 1 to 0), and the unsigned order is Ge64.    *)
(* A Go slice index i is position i + 1 of the TLA+ sequence.              *)
(***************************************************************************)
EXTENDS Integers, Sequences, FiniteSets, TLC

\* ---- bounds of the model ----
\* calls of each operation in a behaviour of Spec
MixCalls == 1
\* getSeqNum calls in a behaviour of SpecSeq
SeqCalls == 3
\* GetAccount calls in a behaviour of SpecReg
RegCalls == 3
\* KeyIndex calls in a behaviour of SpecKey
KeyCalls == 4
\* GetProposalKey calls in a behaviour of SpecPK
PKCalls == 2
\* KeyIndex calls in a behaviour of SpecRot
RotKeyCalls == 2
\* GetProposalKey calls in a behaviour of SpecRot
RotPKCalls == 1
\* getSeqNum calls of each of the two processes in a behaviour of SpecTwo
PeerCalls == 1
\* remote sequence numbers 0 .. NearZero
NearZero == 0
\* remote sequence numbers 2^64 - NearMax .. 2^64 - 1
NearMax == 1
\* keys the remote ledger reports for an account: 1 .. MaxKeys
MaxKeys == 2

Threads == {1, 2}
NoThread == 0
Address == {"a1", "a2"}
\* the (privateKeyInHex, keyIndexes) arguments tried: several keys, one key,
\* and an empty key list
Configs == {[privateKeyInHex |-> "k1", keyIndexes |-> <<0, 1>>],
            [privateKeyInHex |-> "k2", keyIndexes |-> <<1>>],
            [privateKeyInHex |-> "k3", keyIndexes |-> <<>>]}
\* the key indices the callers use
KeyIdx == UNION {{c.keyIndexes[j] : j \in 1 .. Len(c.keyIndexes)} : c \in Configs}
RemoteSeqs == (0 - NearMax) .. NearZero

VARIABLES
    accounts,      \* var accounts map[flow.Address]*Account (address -> heap id)
    heap,          \* the Account objects GetAccount has allocated, by id
    accountsLock,  \* the thread holding accountsLock, or NoThread
    keyIndexLock,  \* the thread holding keyIndexLock, or NoThread
    seqNumLock,    \* the thread holding seqNumLock, or NoThread
    seqNumMap,     \* var seqNumMap map[flow.Address]map[int]uint64
    th,            \* each goroutine: the call it runs, its position, its locals
    budget,        \* calls of each operation the callers may still start
    accLog,        \* history: the GetAccount calls that ended, in order
    keyLog,        \* history: the KeyIndex calls that ended, in order
    seqLog,        \* history: the getSeqNum calls that ended, in order
    pkLog,         \* history: the GetProposalKey calls that ended, in order
    peer           \* a second process running this package: its seqNumMap
                   \* and the history of its getSeqNum calls

vars == <<accounts, heap, accountsLock, keyIndexLock, seqNumLock, seqNumMap,
          th, budget, accLog, keyLog, seqLog, pkLog, peer>>

\* ---- uint64 ----
\* unsigned a >= b
Ge64(a, b) == IF (a < 0) = (b < 0) THEN a >= b ELSE a < 0
\* unsigned a > b
Gt64(a, b) == a # b /\ Ge64(a, b)
\* x++ on a uint64 (wraps from 2^64 - 1 to 0)
Inc64(a) == a + 1
\* a is 2^64 - 1
IsMaxUint64(a) == a + 1 = 0

\* ---- Go maps: a nil map and an empty map both read as the empty function ----
EmptyMap == [x \in {} |-> 0]
Has(m, key) == key \in DOMAIN m
\* a map assignment that drops the other keys
PutAlone(m, key, v) == [x \in {key} |-> v]
\* m[key] = v
Put(m, key, v) == [x \in (DOMAIN m) \cup {key} |-> IF x = key THEN v ELSE m[x]]

\* ---- locals of a goroutine ----
NoAccount == [Address |-> "-", PrivateKeyInHex |-> "-", KeyIndexes |-> <<>>,
              nextKeyIndexIndex |-> 0]
NoKey == [Index |-> 0, SequenceNumber |-> 0]
NilAccount == [isNil |-> TRUE, lenKeys |-> 0]
Idle == [op |-> "none", pc |-> "idle", caller |-> "top",
         address |-> "-", privateKeyInHex |-> "-", keyIndexes |-> <<>>,
         self |-> 0, ref |-> 0, a |-> NoAccount,
         account |-> NilAccount, err |-> FALSE,
         i |-> 0, pos |-> 0, after |-> 0,
         k |-> NoKey, had |-> FALSE, prev |-> 0,
         ret |-> 0, created |-> FALSE, randomIndex |-> 0, panicked |-> FALSE]

\* the calls of each operation that the callers start in one behaviour
Budget(ga, ki, sn, pk) ==
    [GetAccount |-> ga, KeyIndex |-> ki, getSeqNum |-> sn, GetProposalKey |-> pk]

\* the state of a fresh process, whose callers will start the calls in b
InitWith(b) ==
    /\ accounts = EmptyMap
    /\ heap = <<>>
    /\ accountsLock = NoThread
    /\ keyIndexLock = NoThread
    /\ seqNumLock = NoThread
    /\ seqNumMap = EmptyMap
    /\ th = [t \in Threads |-> Idle]
    /\ budget = b
    /\ accLog = <<>>
    /\ keyLog = <<>>
    /\ seqLog = <<>>
    /\ pkLog = <<>>
    /\ peer = [seqNumMap |-> EmptyMap, seqLog |-> <<>>]

Init == InitWith(Budget(MixCalls, MixCalls, MixCalls, MixCalls))

\* sync.Mutex.Lock returns only when the mutex is not held
MutexLock(owner) == owner = NoThread

\* ======================= GetAccount ===================================
\* a caller starts GetAccount(address, privateKeyInHex, keyIndexes)
CallGetAccount(t) ==
    /\ th[t].pc = "idle"
    /\ budget.GetAccount > 0
    /\ \E ad \in Address, cfg \in Configs :
          th' = [th EXCEPT ![t] = [Idle EXCEPT !.op = "GetAccount",
                     !.pc = "ga_lock", !.address = ad,
                     !.privateKeyInHex = cfg.privateKeyInHex,
                     !.keyIndexes = cfg.keyIndexes]]
    /\ budget' = [budget EXCEPT !.GetAccount = @ - 1]
    /\ UNCHANGED <<accounts, heap, accountsLock, keyIndexLock, seqNumLock,
                   seqNumMap, accLog, keyLog, seqLog, pkLog,
                   peer>>

\* an accountsLock.Lock() that does not wait
AccountsLockNoWait(t) == TRUE

\* accountsLock.Lock()
AccountsLockLock(t) == MutexLock(accountsLock)

GetAccountLock(t) ==
    /\ th[t].pc = "ga_lock"
    /\ AccountsLockLock(t)
    /\ accountsLock' = t
    /\ th' = [th EXCEPT ![t].pc = "ga_check"]
    /\ UNCHANGED <<accounts, heap, keyIndexLock, seqNumLock, seqNumMap,
                   budget, accLog, keyLog, seqLog, pkLog,
                   peer>>

\* existing, ok := accounts[address]
AccountsLookup(address) == Has(accounts, address)

\* lines 34-40: make the map if nil, return the existing Account if any
GetAccountCheck(t) ==
    /\ th[t].pc = "ga_check"
    /\ IF AccountsLookup(th[t].address)
       THEN th' = [th EXCEPT ![t].pc = "ga_unlock",
                             ![t].ret = accounts[th[t].address]]
       ELSE th' = [th EXCEPT ![t].pc = "ga_new"]
    /\ UNCHANGED <<accounts, heap, accountsLock, keyIndexLock, seqNumLock,
                   seqNumMap, budget, accLog, keyLog, seqLog, pkLog,
                   peer>>

\* a rand.Intn over the closed interval [0, n]
RandIntnClosed(n) == 0 .. n

\* rand.Intn(n): some index in [0, n); panics when n <= 0
RandIntn(n) == 0 .. (n - 1)

\* lines 43-53: pick the start index, allocate the Account, register it
GetAccountNew(t) ==
    /\ th[t].pc = "ga_new"
    /\ IF RandIntn(Len(th[t].keyIndexes)) = {}
       THEN \* rand.Intn(0) panics; nothing is allocated or stored
            /\ th' = [th EXCEPT ![t].pc = "ga_unlock", ![t].panicked = TRUE]
            /\ UNCHANGED <<accounts, heap>>
       ELSE \E randomIndex \in RandIntn(Len(th[t].keyIndexes)) :
            /\ heap' = Append(heap,
                   [Address |-> th[t].address,
                    PrivateKeyInHex |-> th[t].privateKeyInHex,
                    KeyIndexes |-> th[t].keyIndexes,
                    nextKeyIndexIndex |-> randomIndex])
            /\ accounts' = Put(accounts, th[t].address, Len(heap) + 1)
            /\ th' = [th EXCEPT ![t].pc = "ga_unlock",
                                ![t].ret = Len(heap) + 1,
                                ![t].created = TRUE,
                                ![t].randomIndex = randomIndex]
    /\ UNCHANGED <<accountsLock, keyIndexLock, seqNumLock, seqNumMap,
                   budget, accLog, keyLog, seqLog, pkLog,
                   peer>>

\* an Unlock that is skipped when the function panicked (no defer)
AccountsLockKeptOnPanic(t) == IF th[t].panicked THEN t ELSE NoThread

\* the holder of accountsLock after the deferred accountsLock.Unlock(), which
\* runs on return and on panic alike
AccountsLockUnlock(t) == NoThread

\* defer accountsLock.Unlock(), then the call returns (or the panic goes on)
GetAccountUnlock(t) ==
    /\ th[t].pc = "ga_unlock"
    /\ accountsLock' = AccountsLockUnlock(t)
    /\ accLog' = Append(accLog,
           [address |-> th[t].address,
            overlap |-> \E u \in Threads \ {t} :
                            th[u].pc = "ga_lock" /\ th[u].address = th[t].address,
            privateKeyInHex |-> th[t].privateKeyInHex,
            keyIndexes |-> th[t].keyIndexes,
            outcome |-> IF th[t].panicked THEN "panic" ELSE "ok",
            ret |-> th[t].ret, created |-> th[t].created,
            randomIndex |-> th[t].randomIndex,
            keyCalls |-> Len(keyLog)])
    /\ th' = [th EXCEPT ![t] = Idle]
    /\ UNCHANGED <<accounts, heap, keyIndexLock, seqNumLock, seqNumMap,
                   budget, keyLog, seqLog, pkLog,
                   peer>>

\* the pointers callers hold: those GetAccount calls have returned
Returned ==
    {accLog[j].ret : j \in {n \in 1 .. Len(accLog) : accLog[n].outcome = "ok"}}

\* ======================= Account.KeyIndex ==============================
\* the Account a KeyIndex call works on: the registered object th[t].ref, or
\* (ref = 0) the goroutine's own copy th[t].a, the receiver of GetProposalKey
Receiver(t) == IF th[t].ref = 0 THEN th[t].a ELSE heap[th[t].ref]

\* a caller that holds a pointer returned by GetAccount starts p.KeyIndex()
CallKeyIndex(t) ==
    /\ th[t].pc = "idle"
    /\ budget.KeyIndex > 0
    /\ \E p \in Returned :
          th' = [th EXCEPT ![t] = [Idle EXCEPT !.op = "KeyIndex",
                     !.pc = "ki_lock", !.ref = p, !.self = p]]
    /\ budget' = [budget EXCEPT !.KeyIndex = @ - 1]
    /\ UNCHANGED <<accounts, heap, accountsLock, keyIndexLock, seqNumLock,
                   seqNumMap, accLog, keyLog, seqLog, pkLog,
                   peer>>

\* a keyIndexLock.Lock() that does not wait
KeyIndexLockNoWait(t) == TRUE

\* keyIndexLock.Lock()
KeyIndexLockLock(t) == MutexLock(keyIndexLock)

KeyIndexLock(t) ==
    /\ th[t].pc = "ki_lock"
    /\ KeyIndexLockLock(t)
    /\ keyIndexLock' = t
    /\ th' = [th EXCEPT ![t].pc = "ki_read"]
    /\ UNCHANGED <<accounts, heap, accountsLock, seqNumLock, seqNumMap,
                   budget, accLog, keyLog, seqLog, pkLog,
                   peer>>

\* line 65: i := a.KeyIndexes[a.nextKeyIndexIndex]
KeyIndexRead(t) ==
    /\ th[t].pc = "ki_read"
    /\ LET a == Receiver(t)
           n == a.nextKeyIndexIndex
       IN  IF n >= 0 /\ n < Len(a.KeyIndexes)
           THEN th' = [th EXCEPT ![t].pc = "ki_adv", ![t].pos = n,
                                 ![t].i = a.KeyIndexes[n + 1]]
           ELSE \* index out of range
                th' = [th EXCEPT ![t].pc = "ki_unlock", ![t].panicked = TRUE]
    /\ UNCHANGED <<accounts, heap, accountsLock, keyIndexLock, seqNumLock,
                   seqNumMap, budget, accLog, keyLog, seqLog, pkLog,
                   peer>>

\* NextCursor without the modulo
NextCursorNoWrap(n, len) == n + 1

\* the cursor after one KeyIndex call: (a.nextKeyIndexIndex + 1) % len(a.KeyIndexes)
NextCursor(n, len) == (n + 1) % len

\* line 66: a.nextKeyIndexIndex = (a.nextKeyIndexIndex + 1) % len(a.KeyIndexes)
KeyIndexAdvance(t) ==
    /\ th[t].pc = "ki_adv"
    /\ LET a == Receiver(t)
           n == NextCursor(a.nextKeyIndexIndex, Len(a.KeyIndexes))
       IN  IF th[t].ref = 0
           THEN /\ th' = [th EXCEPT ![t].pc = "ki_unlock", ![t].after = n,
                                    ![t].a.nextKeyIndexIndex = n]
                /\ UNCHANGED heap
           ELSE /\ th' = [th EXCEPT ![t].pc = "ki_unlock", ![t].after = n]
                /\ heap' = [heap EXCEPT ![th[t].ref].nextKeyIndexIndex = n]
    /\ UNCHANGED <<accounts, accountsLock, keyIndexLock, seqNumLock,
                   seqNumMap, budget, accLog, keyLog, seqLog, pkLog,
                   peer>>

\* defer keyIndexLock.Unlock(), then return i (line 68) to the caller
KeyIndexUnlock(t) ==
    /\ th[t].pc = "ki_unlock"
    /\ keyIndexLock' = NoThread
    /\ keyLog' = Append(keyLog,
           [self |-> th[t].self, ref |-> th[t].ref,
            outcome |-> IF th[t].panicked THEN "panic" ELSE "ok",
            pos |-> th[t].pos, after |-> th[t].after, ret |-> th[t].i,
            overlap |-> \E u \in Threads \ {t} :
                            th[u].pc = "ki_lock" /\ th[u].ref = th[t].ref
                            /\ th[t].ref # 0])
    /\ IF th[t].caller = "top"
       THEN th' = [th EXCEPT ![t] = Idle]
       ELSE th' = [th EXCEPT ![t].pc = "pk_load"]
    /\ UNCHANGED <<accounts, heap, accountsLock, seqNumLock, seqNumMap,
                   budget, accLog, seqLog, pkLog,
                   peer>>

\* ======================= getSeqNum =====================================
\* a caller inside the package starts getSeqNum(address, key)
CallGetSeqNum(t) ==
    /\ th[t].pc = "idle"
    /\ budget.getSeqNum > 0
    /\ \E ad \in Address, ix \in KeyIdx, sn \in RemoteSeqs :
          th' = [th EXCEPT ![t] = [Idle EXCEPT !.op = "getSeqNum",
                     !.pc = "sn_lock", !.address = ad,
                     !.k = [Index |-> ix, SequenceNumber |-> sn]]]
    /\ budget' = [budget EXCEPT !.getSeqNum = @ - 1]
    /\ UNCHANGED <<accounts, heap, accountsLock, keyIndexLock, seqNumLock,
                   seqNumMap, accLog, keyLog, seqLog, pkLog,
                   peer>>

\* a seqNumLock.Lock() that does not wait
SeqNumLockNoWait(t) == TRUE

\* seqNumLock.Lock()
SeqNumLockLock(t) == MutexLock(seqNumLock)

GetSeqNumLock(t) ==
    /\ th[t].pc = "sn_lock"
    /\ SeqNumLockLock(t)
    /\ seqNumLock' = t
    /\ th' = [th EXCEPT ![t].pc = "sn_update"]
    /\ UNCHANGED <<accounts, heap, accountsLock, keyIndexLock, seqNumMap,
                   budget, accLog, keyLog, seqLog, pkLog,
                   peer>>

\* lines 101-103 without the nil check: a new map for the address each time
SeqNumMapMadeFresh(m, address) == Put(m, address, EmptyMap)

\* lines 97-103: seqNumMap with the maps of lines 98 and 102 made
SeqNumMapMade(m, address) ==
    IF Has(m, address) THEN m ELSE Put(m, address, EmptyMap)

\* NextSeqNum comparing with > where the code has >=
NextSeqNumStrict(ok, prev, sequenceNumber) ==
    IF ok /\ Gt64(prev, sequenceNumber) THEN Inc64(prev) ELSE sequenceNumber

\* NextSeqNum without the ok of line 105: an absent entry reads as 0
NextSeqNumNoOk(ok, prev, sequenceNumber) ==
    IF Ge64(prev, sequenceNumber) THEN Inc64(prev) ELSE sequenceNumber

\* NextSeqNum without the increment of line 106
NextSeqNumNoInc(ok, prev, sequenceNumber) ==
    IF ok /\ Ge64(prev, sequenceNumber) THEN prev ELSE sequenceNumber

\* NextSeqNum that increments whenever the entry exists
NextSeqNumAlwaysInc(ok, prev, sequenceNumber) ==
    IF ok THEN Inc64(prev) ELSE sequenceNumber

\* lines 105-109: the entry's next value. ok, prev: the entry read at line 105
\* (prev is read only when ok); sequenceNumber: key.SequenceNumber
NextSeqNum(ok, prev, sequenceNumber) ==
    IF ok /\ Ge64(prev, sequenceNumber) THEN Inc64(prev) ELSE sequenceNumber

\* lines 97-109: make the maps, then increment or adopt
GetSeqNumUpdate(t) ==
    /\ th[t].pc = "sn_update"
    /\ LET address == th[t].address
           key == th[t].k
           m == SeqNumMapMade(seqNumMap, address)
           ok == Has(m[address], key.Index)
           prev == IF ok THEN m[address][key.Index] ELSE 0
       IN  /\ seqNumMap' = Put(m, address,
                  Put(m[address], key.Index,
                      NextSeqNum(ok, prev, key.SequenceNumber)))
           /\ th' = [th EXCEPT ![t].pc = "sn_return", ![t].had = ok,
                               ![t].prev = prev]
    /\ UNCHANGED <<accounts, heap, accountsLock, keyIndexLock, seqNumLock,
                   budget, accLog, keyLog, seqLog, pkLog,
                   peer>>

\* line 111: return seqNumMap[address][key.Index], then the deferred
\* seqNumLock.Unlock()
GetSeqNumReturn(t) ==
    /\ th[t].pc = "sn_return"
    /\ seqNumLock' = NoThread
    /\ LET r == seqNumMap[th[t].address][th[t].k.Index]
       IN  /\ seqLog' = Append(seqLog,
                  [via |-> th[t].caller,
                   overlap |-> \E u \in Threads \ {t} :
                                   /\ th[u].pc = "sn_lock"
                                   /\ th[u].address = th[t].address
                                   /\ th[u].k.Index = th[t].k.Index,
                   address |-> th[t].address, Index |-> th[t].k.Index,
                   SequenceNumber |-> th[t].k.SequenceNumber,
                   had |-> th[t].had, prev |-> th[t].prev, ret |-> r])
           /\ IF th[t].caller = "top"
              THEN th' = [th EXCEPT ![t] = Idle]
              ELSE th' = [th EXCEPT ![t].pc = "pk_return", ![t].ret = r]
    /\ UNCHANGED <<accounts, heap, accountsLock, keyIndexLock, seqNumMap,
                   budget, accLog, keyLog, pkLog,
                   peer>>

\* ======================= Account.GetProposalKey ========================
\* what flowClient.GetAccount can return: (nil, err), or an account with
\* lenKeys keys, Keys[j] having Index j and any sequence number. No step reads
\* a sequence number before line 73 loads the key, so the model draws the
\* sequence number of a key when it is loaded (RemoteKey).
RemoteAccounts == {[isNil |-> FALSE, lenKeys |-> n] : n \in 1 .. MaxKeys}

\* the values account.Keys[i] can have
RemoteKey(i) == {[Index |-> i, SequenceNumber |-> sn] : sn \in RemoteSeqs}

\* a GetProposalKey that takes keyIndexLock before its remote query
CallGetProposalKeyLocked(t) ==
    /\ th[t].pc = "idle"
    /\ budget.GetProposalKey > 0
    /\ keyIndexLock = NoThread
    /\ keyIndexLock' = t
    /\ \E p \in Returned :
          th' = [th EXCEPT ![t] = [Idle EXCEPT !.op = "GetProposalKey",
                     !.pc = "pk_query", !.caller = "pk", !.self = p,
                     !.ref = 0, !.a = heap[p]]]
    /\ budget' = [budget EXCEPT !.GetProposalKey = @ - 1]
    /\ UNCHANGED <<accounts, heap, accountsLock, seqNumLock,
                   seqNumMap, accLog, keyLog, seqLog, pkLog,
                   peer>>

\* a caller that holds a pointer p returned by GetAccount starts
\* p.GetProposalKey(ctx, flowClient): the value receiver a is a copy of *p
CallGetProposalKey(t) ==
    /\ th[t].pc = "idle"
    /\ budget.GetProposalKey > 0
    /\ \E p \in Returned :
          th' = [th EXCEPT ![t] = [Idle EXCEPT !.op = "GetProposalKey",
                     !.pc = "pk_query", !.caller = "pk", !.self = p,
                     !.ref = 0, !.a = heap[p]]]
    /\ budget' = [budget EXCEPT !.GetProposalKey = @ - 1]
    /\ UNCHANGED <<accounts, heap, accountsLock, keyIndexLock, seqNumLock,
                   seqNumMap, accLog, keyLog, seqLog, pkLog,
                   peer>>

\* line 72: account, err := flowClient.GetAccount(ctx, a.Address); line 73
\* begins. With a nil account, account.Keys panics; Go does not order that
\* load against the call a.KeyIndex(), so it panics before or after the call.
GetProposalKeyQuery(t) ==
    /\ th[t].pc = "pk_query"
    /\ \/ \E acc \in RemoteAccounts :
             th' = [th EXCEPT ![t].pc = "ki_lock", ![t].account = acc,
                              ![t].err = FALSE]
       \/ th' = [th EXCEPT ![t].pc = "ki_lock", ![t].account = NilAccount,
                           ![t].err = TRUE]
       \/ th' = [th EXCEPT ![t].pc = "pk_return", ![t].account = NilAccount,
                           ![t].err = TRUE, ![t].panicked = TRUE]
    /\ UNCHANGED <<accounts, heap, accountsLock, keyIndexLock, seqNumLock,
                   seqNumMap, budget, accLog, keyLog, seqLog, pkLog,
                   peer>>

\* line 73 after a.KeyIndex() returned i: k := account.Keys[i]; lines 74-76:
\* the error check; line 77: the call of getSeqNum(a.Address, k)
GetProposalKeyLoad(t) ==
    /\ th[t].pc = "pk_load"
    /\ LET i == th[t].i
       IN  IF th[t].panicked \/ th[t].account.isNil
              \/ i < 0 \/ i >= th[t].account.lenKeys
           THEN \* nil pointer dereference, or index out of range
                th' = [th EXCEPT ![t].pc = "pk_return", ![t].panicked = TRUE]
           ELSE \E k \in RemoteKey(i) :
                    IF th[t].err
                    THEN th' = [th EXCEPT ![t].pc = "pk_return", ![t].k = k]
                    ELSE th' = [th EXCEPT ![t].pc = "sn_lock", ![t].k = k,
                                          ![t].address = th[t].a.Address]
    /\ UNCHANGED <<accounts, heap, accountsLock, keyIndexLock, seqNumLock,
                   seqNumMap, budget, accLog, keyLog, seqLog, pkLog,
                   peer>>

\* lines 75, 77-78: the call ends: with the error, with k carrying the
\* sequence number getSeqNum returned, or in a panic
GetProposalKeyReturn(t) ==
    /\ th[t].pc = "pk_return"
    /\ pkLog' = Append(pkLog,
           [self |-> th[t].self, address |-> th[t].a.Address,
            outcome |-> IF th[t].panicked THEN "panic"
                        ELSE IF th[t].err THEN "error" ELSE "ok",
            queryFailed |-> th[t].err,
            Index |-> th[t].k.Index, SequenceNumber |-> th[t].ret])
    /\ th' = [th EXCEPT ![t] = Idle]
    /\ UNCHANGED <<accounts, heap, accountsLock, keyIndexLock, seqNumLock,
                   seqNumMap, budget, accLog, keyLog, seqLog,
                   peer>>

\* ======================= a second process ==============================
\* the seqNumMap of a second process that reads this process's map
PeerSeqNumMapShared == seqNumMap

\* var seqNumMap (line 20) of the second process: a package variable of its
\* own, which nothing links to the first process's
PeerSeqNumMap == peer.seqNumMap

\* a getSeqNum call in the second process, from Lock to Unlock (the two
\* processes share no memory, so its steps are not interleaved with the
\* first process's accesses to anything)
PeerGetSeqNum ==
    /\ Len(peer.seqLog) < PeerCalls
    /\ \E ad \in Address, ix \in KeyIdx, sn \in RemoteSeqs :
          LET m == SeqNumMapMade(PeerSeqNumMap, ad)
              ok == Has(m[ad], ix)
              prev == IF ok THEN m[ad][ix] ELSE 0
              r == NextSeqNum(ok, prev, sn)
          IN  peer' = [seqNumMap |-> Put(m, ad, Put(m[ad], ix, r)),
                       seqLog |-> Append(peer.seqLog,
                           [address |-> ad, Index |-> ix, SequenceNumber |-> sn,
                            had |-> ok, prev |-> prev, ret |-> r])]
    /\ UNCHANGED <<accounts, heap, accountsLock, keyIndexLock, seqNumLock,
                   seqNumMap, th, budget, accLog, keyLog, seqLog, pkLog>>

\* ======================= the program ===================================
Next ==
    \E t \in Threads :
        \/ CallGetAccount(t)
        \/ GetAccountLock(t)
        \/ GetAccountCheck(t)
        \/ GetAccountNew(t)
        \/ GetAccountUnlock(t)
        \/ CallKeyIndex(t)
        \/ KeyIndexLock(t)
        \/ KeyIndexRead(t)
        \/ KeyIndexAdvance(t)
        \/ KeyIndexUnlock(t)
        \/ CallGetSeqNum(t)
        \/ GetSeqNumLock(t)
        \/ GetSeqNumUpdate(t)
        \/ GetSeqNumReturn(t)
        \/ CallGetProposalKey(t)
        \/ GetProposalKeyQuery(t)
        \/ GetProposalKeyLoad(t)
        \/ GetProposalKeyReturn(t)

Spec == Init /\ [][Next]_vars

\* ---- the allocator alone: callers of getSeqNum ----
InitSeq == InitWith(Budget(0, 0, SeqCalls, 0))

NextSeq ==
    \E t \in Threads :
        \/ CallGetSeqNum(t)
        \/ GetSeqNumLock(t)
        \/ GetSeqNumUpdate(t)
        \/ GetSeqNumReturn(t)

SpecSeq == InitSeq /\ [][NextSeq]_vars

\* ---- the registry: callers of GetAccount, and one KeyIndex call ----
InitReg == InitWith(Budget(RegCalls, 1, 0, 0))

NextReg ==
    \E t \in Threads :
        \/ CallGetAccount(t)
        \/ GetAccountLock(t)
        \/ GetAccountCheck(t)
        \/ GetAccountNew(t)
        \/ GetAccountUnlock(t)
        \/ CallKeyIndex(t)
        \/ KeyIndexLock(t)
        \/ KeyIndexRead(t)
        \/ KeyIndexAdvance(t)
        \/ KeyIndexUnlock(t)

SpecReg == InitReg /\ [][NextReg]_vars

\* ---- the rotator: two GetAccount calls, and callers of KeyIndex ----
InitKey == InitWith(Budget(2, KeyCalls, 0, 0))

SpecKey == InitKey /\ [][NextReg]_vars

\* ---- proposal keys: one GetAccount call, then callers of GetProposalKey ----
InitPK == InitWith(Budget(1, 0, 0, PKCalls))

NextPK ==
    \E t \in Threads :
        \/ CallGetAccount(t)
        \/ GetAccountLock(t)
        \/ GetAccountCheck(t)
        \/ GetAccountNew(t)
        \/ GetAccountUnlock(t)
        \/ KeyIndexLock(t)
        \/ KeyIndexRead(t)
        \/ KeyIndexAdvance(t)
        \/ KeyIndexUnlock(t)
        \/ GetSeqNumLock(t)
        \/ GetSeqNumUpdate(t)
        \/ GetSeqNumReturn(t)
        \/ CallGetProposalKey(t)
        \/ GetProposalKeyQuery(t)
        \/ GetProposalKeyLoad(t)
        \/ GetProposalKeyReturn(t)

SpecPK == InitPK /\ [][NextPK]_vars

\* ---- rotation and proposal keys together: one GetAccount call, then
\* callers of KeyIndex and of GetProposalKey ----
InitRot == InitWith(Budget(1, RotKeyCalls, 0, RotPKCalls))

NextRot ==
    \E t \in Threads :
        \/ CallGetAccount(t)
        \/ GetAccountLock(t)
        \/ GetAccountCheck(t)
        \/ GetAccountNew(t)
        \/ GetAccountUnlock(t)
        \/ CallKeyIndex(t)
        \/ KeyIndexLock(t)
        \/ KeyIndexRead(t)
        \/ KeyIndexAdvance(t)
        \/ KeyIndexUnlock(t)
        \/ GetSeqNumLock(t)
        \/ GetSeqNumUpdate(t)
        \/ GetSeqNumReturn(t)
        \/ CallGetProposalKey(t)
        \/ GetProposalKeyQuery(t)
        \/ GetProposalKeyLoad(t)
        \/ GetProposalKeyReturn(t)

SpecRot == InitRot /\ [][NextRot]_vars

\* ---- proposal keys under fair scheduling: two GetAccount calls, then
\* callers of GetProposalKey ----
InitFair == InitWith(Budget(2, 0, 0, PKCalls))

\* the steps of thread t inside a call
Run(t) ==
    \/ GetAccountLock(t)
    \/ GetAccountCheck(t)
    \/ GetAccountNew(t)
    \/ GetAccountUnlock(t)
    \/ KeyIndexLock(t)
    \/ KeyIndexRead(t)
    \/ KeyIndexAdvance(t)
    \/ KeyIndexUnlock(t)
    \/ GetSeqNumLock(t)
    \/ GetSeqNumUpdate(t)
    \/ GetSeqNumReturn(t)
    \/ GetProposalKeyQuery(t)
    \/ GetProposalKeyLoad(t)
    \/ GetProposalKeyReturn(t)

\* the Go scheduler runs every goroutine that can run: a step of a call that
\* stays possible is taken. A behaviour has finitely many calls, so a Lock()
\* that waits stays possible once the other callers are done, at the latest.
SpecFair ==
    /\ InitFair
    /\ [][NextPK]_vars
    /\ \A t \in Threads : WF_vars(Run(t))

\* ---- the three functions side by side: two GetAccount calls, one
\* KeyIndex call and two getSeqNum calls ----
InitFrame == InitWith(Budget(2, 1, 2, 0))

NextFrame ==
    \E t \in Threads :
        \/ CallGetAccount(t)
        \/ GetAccountLock(t)
        \/ GetAccountCheck(t)
        \/ GetAccountNew(t)
        \/ GetAccountUnlock(t)
        \/ CallKeyIndex(t)
        \/ KeyIndexLock(t)
        \/ KeyIndexRead(t)
        \/ KeyIndexAdvance(t)
        \/ KeyIndexUnlock(t)
        \/ CallGetSeqNum(t)
        \/ GetSeqNumLock(t)
        \/ GetSeqNumUpdate(t)
        \/ GetSeqNumReturn(t)

SpecFrame == InitFrame /\ [][NextFrame]_vars

\* ---- two processes: callers of getSeqNum in each ----
InitTwo == InitWith(Budget(0, 0, PeerCalls, 0))

NextTwo == NextSeq \/ PeerGetSeqNum

SpecTwo == InitTwo /\ [][NextTwo]_vars

\* ======================= properties ====================================
\* the getSeqNum calls for the pair (ad, ix), in the order they returned
PairLog(ad, ix) == SelectSeq(seqLog, LAMBDA e : e.address = ad /\ e.Index = ix)
Pairs == Address \X KeyIdx
\* b is a + 1 as numbers (there is no such uint64 b when a is 2^64 - 1)
Succ64(a, b) == ~IsMaxUint64(a) /\ b = a + 1
\* the getSeqNum call e found the cached value 2^64 - 1 and incremented it
Wraps(e) == e.had /\ IsMaxUint64(e.prev)
\* the entry a getSeqNum call at line 111 is about to return
CacheEntry(t) == seqNumMap[th[t].address][th[t].k.Index]

\* ---- C2 ----
\* C2 as stated: for each pair, every getSeqNum return value is strictly
\* greater than the value the previous call for the pair returned, and a
\* call that found cached >= remote returns more than cached.
C2_AsStated ==
    \A pr \in Pairs :
        LET log == PairLog(pr[1], pr[2])
        IN  /\ \A j \in 1 .. Len(log) - 1 : Gt64(log[j + 1].ret, log[j].ret)
            /\ \A j \in 1 .. Len(log) :
                   (log[j].had /\ Ge64(log[j].prev, log[j].SequenceNumber))
                       => Gt64(log[j].ret, log[j].prev)

\* C2, amended: for each pair the calls serialize: each call finds as cached
\* value what the previous call for the pair returned, and returns strictly
\* more than it, except that after a return value of 2^64 - 1 the next call
\* returns 0 (the increment wraps around).
C2_MonotoneUpToWrap ==
    \A pr \in Pairs :
        LET log == PairLog(pr[1], pr[2])
        IN  \A j \in 1 .. Len(log) - 1 :
                /\ log[j + 1].had
                /\ log[j + 1].prev = log[j].ret
                /\ IF IsMaxUint64(log[j].ret)
                   THEN log[j + 1].ret = 0
                   ELSE Gt64(log[j + 1].ret, log[j].ret)

\* C2 witness: three calls for one pair have returned, the second found
\* cached >= remote while another call for the pair was waiting, the third
\* found cached < remote
C2_Witness ==
    \E pr \in Pairs :
        LET log == PairLog(pr[1], pr[2])
        IN  /\ Len(log) >= 3
            /\ log[2].overlap
            /\ Ge64(log[2].prev, log[2].SequenceNumber)
            /\ ~Ge64(log[3].prev, log[3].SequenceNumber)

\* ---- C3 ----
\* C3 as stated: successive calls for one pair that pass the same remote
\* sequence number R return successive numbers (each one more than the one
\* before, hence pairwise distinct), the first being R when the pair had no
\* entry.
C3_AsStated ==
    \A pr \in Pairs :
        LET log == PairLog(pr[1], pr[2])
        IN  /\ \A j \in 1 .. Len(log) - 1 :
                   log[j].SequenceNumber = log[j + 1].SequenceNumber
                       => Succ64(log[j].ret, log[j + 1].ret)
            /\ \A i, j \in 1 .. Len(log) :
                   (/\ i < j
                    /\ \A n \in i .. j :
                           log[n].SequenceNumber = log[i].SequenceNumber)
                       => log[i].ret # log[j].ret

\* C3, amended: the same, as long as none of the calls finds the cached
\* value 2^64 - 1 (such a call wraps the entry to 0, and the values that
\* follow may repeat earlier ones).  The last conjunct says that the values
\* do not pass from 2^64 - 1 to 0 in between.
C3_ConsecutiveUpToWrap ==
    \A pr \in Pairs :
        LET log == PairLog(pr[1], pr[2])
        IN  /\ Len(log) > 0 => log[1].ret = log[1].SequenceNumber
            /\ \A i, j \in 1 .. Len(log) :
                   (/\ i < j
                    /\ \A n \in i .. j :
                           /\ log[n].SequenceNumber = log[i].SequenceNumber
                           /\ ~Wraps(log[n]))
                       => /\ log[j].ret = log[i].ret + (j - i)
                          /\ ~(log[i].ret < 0 /\ log[j].ret >= 0)

\* C3 witness: SeqCalls calls for one pair, all with the same remote sequence
\* number, have returned, and calls were waiting while others held the lock
C3_Witness ==
    \E pr \in Pairs :
        LET log == PairLog(pr[1], pr[2])
        IN  /\ Len(log) = SeqCalls
            /\ \A j \in 1 .. Len(log) :
                   log[j].SequenceNumber = log[1].SequenceNumber
            /\ log[1].overlap /\ log[2].overlap
            /\ \A j \in 1 .. Len(log) : ~Wraps(log[j])

\* ---- C4 ----
\* C4: a getSeqNum call that finds no entry for its pair stores the remote
\* sequence number S as the entry and returns S.
C4_FirstUseTrust ==
    /\ \A t \in Threads :
           (th[t].pc = "sn_return" /\ ~th[t].had)
               => CacheEntry(t) = th[t].k.SequenceNumber
    /\ \A j \in 1 .. Len(seqLog) :
           ~seqLog[j].had => seqLog[j].ret = seqLog[j].SequenceNumber

\* C4 witness: first calls have returned for a pair with S = 0 and for a
\* pair with another S
C4_Witness ==
    /\ \E j \in 1 .. Len(seqLog) :
           ~seqLog[j].had /\ seqLog[j].SequenceNumber = 0
    /\ \E j \in 1 .. Len(seqLog) :
           ~seqLog[j].had /\ seqLog[j].SequenceNumber # 0

\* ---- C5 ----
\* C5 as stated: a call that finds an entry cached >= remote makes the entry
\* cached + 1 and returns cached + 1.
C5_AsStated ==
    /\ \A t \in Threads :
           (/\ th[t].pc = "sn_return" /\ th[t].had
            /\ Ge64(th[t].prev, th[t].k.SequenceNumber))
               => Succ64(th[t].prev, CacheEntry(t))
    /\ \A j \in 1 .. Len(seqLog) :
           (seqLog[j].had /\ Ge64(seqLog[j].prev, seqLog[j].SequenceNumber))
               => Succ64(seqLog[j].prev, seqLog[j].ret)

\* C5, amended: a call that finds an entry cached >= remote makes the entry
\* cached + 1 modulo 2^64 (that is 0 when cached is 2^64 - 1, and cached + 1
\* otherwise) and returns that value.
C5_IncrementModulo ==
    /\ \A t \in Threads :
           (/\ th[t].pc = "sn_return" /\ th[t].had
            /\ Ge64(th[t].prev, th[t].k.SequenceNumber))
               => CacheEntry(t) = IF IsMaxUint64(th[t].prev) THEN 0
                                  ELSE th[t].prev + 1
    /\ \A j \in 1 .. Len(seqLog) :
           (seqLog[j].had /\ Ge64(seqLog[j].prev, seqLog[j].SequenceNumber))
               => seqLog[j].ret = IF IsMaxUint64(seqLog[j].prev) THEN 0
                                  ELSE seqLog[j].prev + 1

\* C5 witness: a call that found cached >= remote below 2^64 - 1 and a call
\* that found cached = 2^64 - 1 have returned
C5_Witness ==
    /\ \E j \in 1 .. Len(seqLog) :
           /\ seqLog[j].had /\ ~IsMaxUint64(seqLog[j].prev)
           /\ Ge64(seqLog[j].prev, seqLog[j].SequenceNumber)
    /\ \E j \in 1 .. Len(seqLog) :
           seqLog[j].had /\ IsMaxUint64(seqLog[j].prev)

\* ---- C6 ----
\* C6: a call that finds an entry cached < remote sets the entry to the
\* remote sequence number and returns it, not incremented.
C6_CatchUpAdoption ==
    /\ \A t \in Threads :
           (/\ th[t].pc = "sn_return" /\ th[t].had
            /\ ~Ge64(th[t].prev, th[t].k.SequenceNumber))
               => CacheEntry(t) = th[t].k.SequenceNumber
    /\ \A j \in 1 .. Len(seqLog) :
           (seqLog[j].had /\ ~Ge64(seqLog[j].prev, seqLog[j].SequenceNumber))
               => seqLog[j].ret = seqLog[j].SequenceNumber

\* C6 witness: a call that found cached < remote has returned
C6_Witness ==
    \E j \in 1 .. Len(seqLog) :
        /\ seqLog[j].had
        /\ ~Ge64(seqLog[j].prev, seqLog[j].SequenceNumber)
        /\ seqLog[j].ret = seqLog[j].SequenceNumber

\* ---- C7 ----
\* the GetAccount calls that returned an Account
OkAcc == {j \in 1 .. Len(accLog) : accLog[j].outcome = "ok"}
\* the call that created the Account p
Creator(p) == CHOOSE j \in 1 .. Len(accLog) : accLog[j].created /\ accLog[j].ret = p

\* C7, state part: no two Accounts exist for one address; all GetAccount
\* calls for an address return the same Account; that Account carries the
\* credential and key indexes of the call that created it, whatever the
\* later calls passed.
C7_OneAccountPerAddress ==
    /\ \A p, q \in 1 .. Len(heap) :
           heap[p].Address = heap[q].Address => p = q
    /\ \A i, j \in OkAcc :
           accLog[i].address = accLog[j].address => accLog[i].ret = accLog[j].ret
    /\ \A j \in OkAcc :
           LET p == accLog[j].ret
           IN  /\ p \in 1 .. Len(heap)
               /\ heap[p].Address = accLog[j].address
               /\ \E c \in 1 .. j :
                      /\ accLog[c].created /\ accLog[c].ret = p
                      /\ heap[p].PrivateKeyInHex = accLog[c].privateKeyInHex
                      /\ heap[p].KeyIndexes = accLog[c].keyIndexes

\* C7, step part: no step of a GetAccount call changes an Account that
\* exists (its rotation cursor, key indexes, credential)
C7_GetAccountKeepsAccounts ==
    \A t \in Threads :
        (th'[t] # th[t] /\ (th[t].op = "GetAccount" \/ th'[t].op = "GetAccount"))
            => \A p \in 1 .. Len(heap) : Len(heap') >= p /\ heap'[p] = heap[p]

\* C7: for any interleaving of GetAccount calls at most one Account is
\* created per address, all calls for the address return it, the arguments
\* of the later calls are ignored, and no GetAccount call changes the
\* rotation cursor or the key indexes of an Account.
C7_RegistryIdempotent ==
    []C7_OneAccountPerAddress /\ [][C7_GetAccountKeepsAccounts]_vars

\* C7 witness: two GetAccount calls for one unregistered address ran
\* concurrently and returned; a KeyIndex call moved the cursor of the Account
\* away from its start; then a third GetAccount call for the address, with
\* other arguments, returned
C7_Witness ==
    \E i, j, n \in OkAcc :
        /\ i < j /\ j < n
        /\ accLog[i].address = accLog[j].address
        /\ accLog[j].address = accLog[n].address
        /\ accLog[i].created /\ accLog[i].overlap
        /\ accLog[n].keyIndexes # accLog[i].keyIndexes
        /\ accLog[n].privateKeyInHex # accLog[i].privateKeyInHex
        /\ accLog[n].keyCalls = 1 /\ Len(keyLog) = 1
        /\ keyLog[1].self = accLog[i].ret
        /\ heap[accLog[i].ret].nextKeyIndexIndex # accLog[i].randomIndex

\* ---- C8 ----
\* C8 as stated: a GetAccount call for an unregistered address with empty
\* keyIndexes ends with an error value, not in a panic (and registers
\* nothing).
C8_AsStated ==
    \A j \in 1 .. Len(accLog) :
        (accLog[j].keyIndexes = <<>> /\ accLog[j].ret = 0)
            => /\ accLog[j].outcome = "error"
               /\ ~accLog[j].created

\* ---- C9 ----
\* the KeyIndex calls made on the registered Account p, in the order they
\* returned
ObjLog(p) == SelectSeq(keyLog, LAMBDA e : e.ref = p)
\* how often x occurs in the sequence q
Count(q, x) == Cardinality({j \in 1 .. Len(q) : q[j] = x})

\* C9: each KeyIndex call returns the element of KeyIndexes at the cursor it
\* found and leaves the cursor one further modulo len(KeyIndexes); the calls
\* on an Account return the key indexes in round-robin order from the start
\* cursor, so k * len(KeyIndexes) calls return each key index k times.
C9_RoundRobin ==
    \A p \in Returned :
        LET log == ObjLog(p)
            ks == heap[p].KeyIndexes
            start == accLog[Creator(p)].randomIndex
        IN  /\ \A j \in 1 .. Len(log) :
                   /\ log[j].outcome = "ok"
                   /\ log[j].ret = ks[log[j].pos + 1]
                   /\ log[j].after = (log[j].pos + 1) % Len(ks)
                   /\ log[j].ret = ks[((start + j - 1) % Len(ks)) + 1]
            /\ Len(log) % Len(ks) = 0
                   => \A x \in 1 .. Len(ks) :
                          Count([j \in 1 .. Len(log) |-> log[j].ret], ks[x])
                              = Len(log) \div Len(ks)

\* C9 witness: 2 * 2 calls on an Account with two key indexes returned
C9_Witness ==
    \E p \in Returned :
        /\ Len(heap[p].KeyIndexes) = 2
        /\ Len(ObjLog(p)) = 4
        /\ \A j \in 1 .. 4 : ObjLog(p)[j].outcome = "ok"

\* ---- C10 ----
\* the KeyIndex calls on p that have advanced the cursor and not yet returned
Advanced(p) ==
    {t \in Threads : th[t].pc = "ki_unlock" /\ th[t].ref = p /\ ~th[t].panicked}

\* C10: concurrent KeyIndex calls on an Account read successive cursor
\* positions, never the same one twice in a row, and the cursor is as many
\* positions ahead of its start as calls have advanced it.
C10_AtomicRotation ==
    \A p \in Returned :
        LET log == ObjLog(p)
            len == Len(heap[p].KeyIndexes)
            start == accLog[Creator(p)].randomIndex
        IN  /\ \A j \in 1 .. Len(log) : log[j].pos = (start + j - 1) % len
            /\ \A j \in 1 .. Len(log) - 1 : log[j + 1].pos = log[j].after
            /\ heap[p].nextKeyIndexIndex
                   = (start + Len(log) + Cardinality(Advanced(p))) % len

\* C10 witness: two KeyIndex calls on one Account with two key indexes were
\* in flight together (one waited while the other held the lock) and both
\* returned
C10_Witness ==
    \E p \in Returned :
        /\ Len(heap[p].KeyIndexes) = 2
        /\ Len(ObjLog(p)) >= 2
        /\ ObjLog(p)[1].overlap
        /\ ObjLog(p)[1].ret # ObjLog(p)[2].ret

\* ---- C1 ----
\* the GetProposalKey calls that returned a proposal key
OkKeys == {j \in 1 .. Len(pkLog) : pkLog[j].outcome = "ok"}

\* C1 as stated: no two successful GetProposalKey calls on an address return
\* the same key index with the same sequence number, and for each key index
\* the sequence numbers are strictly increasing in the order the calls pass
\* through getSeqNum.
C1_AsStated ==
    /\ \A i, j \in OkKeys :
           (/\ i # j
            /\ pkLog[i].address = pkLog[j].address
            /\ pkLog[i].Index = pkLog[j].Index)
               => pkLog[i].SequenceNumber # pkLog[j].SequenceNumber
    /\ \A pr \in Pairs :
           LET log == PairLog(pr[1], pr[2])
           IN  \A i, j \in 1 .. Len(log) :
                   i < j => Gt64(log[j].ret, log[i].ret)

\* C1, amended: the same, as long as no call finds the cached sequence
\* number of its key at 2^64 - 1: every proposal key carries the number
\* getSeqNum handed to its call; over a stretch of calls for a key index in
\* which none found 2^64 - 1 cached the numbers are strictly increasing in
\* the order the calls pass through getSeqNum; so two proposal keys with the
\* same key index and sequence number exist only after such a wrap-around.
C1_UniqueUpToWrap ==
    /\ \A j \in OkKeys :
           \E n \in 1 .. Len(seqLog) :
               /\ seqLog[n].via = "pk"
               /\ seqLog[n].address = pkLog[j].address
               /\ seqLog[n].Index = pkLog[j].Index
               /\ seqLog[n].ret = pkLog[j].SequenceNumber
    /\ Cardinality(OkKeys) <= Len(seqLog)
    /\ \A pr \in Pairs :
           LET log == PairLog(pr[1], pr[2])
           IN  \A i, j \in 1 .. Len(log) :
                   (i < j /\ \A n \in (i + 1) .. j : ~Wraps(log[n]))
                       => Gt64(log[j].ret, log[i].ret)
    /\ \A i, j \in OkKeys :
           (/\ i # j
            /\ pkLog[i].address = pkLog[j].address
            /\ pkLog[i].Index = pkLog[j].Index
            /\ pkLog[i].SequenceNumber = pkLog[j].SequenceNumber)
               => LET log == PairLog(pkLog[i].address, pkLog[i].Index)
                  IN  \E n \in 1 .. Len(log) : Wraps(log[n])

\* C1 witness: two GetProposalKey calls on one address were at getSeqNum
\* together and returned keys with the same key index, the later one with
\* the larger sequence number, and none found 2^64 - 1 cached
C1_Witness ==
    \E i, j \in OkKeys :
        /\ i # j
        /\ pkLog[i].address = pkLog[j].address
        /\ pkLog[i].Index = pkLog[j].Index
        /\ Gt64(pkLog[j].SequenceNumber, pkLog[i].SequenceNumber)
        /\ LET log == PairLog(pkLog[i].address, pkLog[i].Index)
           IN  /\ Len(log) = 2
               /\ log[1].overlap
               /\ \A x \in 1 .. 2 : ~Wraps(log[x])

\* ---- C11 ----
\* the GetProposalKey calls that ended and whose remote query had failed
FailedQueries == {j \in 1 .. Len(pkLog) : pkLog[j].queryFailed}

\* C11 as stated: a GetProposalKey call whose remote account query failed
\* ends by returning the error: it does not panic and it returns no proposal
\* key (so no sequence number either).
C11_AsStated ==
    \A j \in FailedQueries : pkLog[j].outcome = "error"

\* ---- C12 ----
\* the GetProposalKey calls made on the registered Account p that have ended
ProposalLog(p) == SelectSeq(pkLog, LAMBDA e : e.self = p)

\* C12 as stated: every GetProposalKey call made on a registered Account has
\* advanced that Account's rotation cursor by one position when it ends,
\* whether it succeeded or its query failed (here no caller calls KeyIndex
\* directly, so the cursor is the start index plus the number of calls, modulo
\* the number of key indexes), and two consecutive successful calls on an
\* Account with two key indexes return different key indexes.
C12_AsStated ==
    \A p \in Returned :
        /\ heap[p].nextKeyIndexIndex
              = (accLog[Creator(p)].randomIndex + Len(ProposalLog(p)))
                    % Len(heap[p].KeyIndexes)
        /\ \A j \in 1 .. Len(ProposalLog(p)) - 1 :
               (/\ Len(heap[p].KeyIndexes) > 1
                /\ ProposalLog(p)[j].outcome = "ok"
                /\ ProposalLog(p)[j + 1].outcome = "ok")
                   => ProposalLog(p)[j].Index # ProposalLog(p)[j + 1].Index

\* ---- C13 ----
\* the key indexes passed by the GetAccount call that created the Account p
\* (the call is at its deferred Unlock, or has returned)
CreatedWith(p) ==
    IF \E t \in Threads : th[t].pc = "ga_unlock" /\ th[t].created /\ th[t].ret = p
    THEN LET t == CHOOSE u \in Threads :
                      th[u].pc = "ga_unlock" /\ th[u].created /\ th[u].ret = p
         IN  th[t].keyIndexes
    ELSE accLog[Creator(p)].keyIndexes

\* C13: in every state every registered Account has a non-empty key-index
\* list, the one its creating GetAccount call passed, and a rotation cursor
\* with 0 <= cursor < len(KeyIndexes); so has the copy of the Account a
\* GetProposalKey call in progress works on.
C13_CursorInRange ==
    /\ \A ad \in DOMAIN accounts :
           LET a == heap[accounts[ad]]
           IN  /\ a.Address = ad
               /\ a.KeyIndexes # <<>>
               /\ a.KeyIndexes = CreatedWith(accounts[ad])
               /\ a.nextKeyIndexIndex >= 0
               /\ a.nextKeyIndexIndex < Len(a.KeyIndexes)
    /\ \A p \in 1 .. Len(heap) : \E ad \in DOMAIN accounts : accounts[ad] = p
    /\ \A t \in Threads :
           th[t].op = "GetProposalKey"
               => /\ th[t].a.KeyIndexes = heap[th[t].self].KeyIndexes
                  /\ th[t].a.nextKeyIndexIndex >= 0
                  /\ th[t].a.nextKeyIndexIndex < Len(th[t].a.KeyIndexes)

\* C13 witness: on a registered Account with two key indexes a KeyIndex
\* call has wrapped the cursor from the last position to 0, a second
\* KeyIndex call and a GetProposalKey call have ended
C13_Witness ==
    \E p \in Returned :
        /\ Len(heap[p].KeyIndexes) = 2
        /\ \E j \in 1 .. Len(keyLog) :
               /\ keyLog[j].ref = p
               /\ keyLog[j].pos = 1
               /\ keyLog[j].after = 0
        /\ Len(SelectSeq(keyLog, LAMBDA e : e.ref = p)) >= 2
        /\ \E j \in 1 .. Len(pkLog) : pkLog[j].self = p /\ pkLog[j].outcome = "ok"

\* ---- C14 ----
\* thread t is at a line that reads or writes the registry map
AtAccounts(t) == th[t].pc \in {"ga_check", "ga_new"}
\* thread t is at a line that reads or writes the cursor of a registered Account
AtCursor(t) == th[t].pc \in {"ki_read", "ki_adv"} /\ th[t].ref # 0
\* thread t is at a line that reads or writes the sequence cache
AtSeqNumMap(t) == th[t].pc \in {"sn_update", "sn_return"}
\* this step of thread t starts GetProposalKey: it copies the Account
\* th'[t].self, cursor included, into the receiver
CopiesAccount(t) == th[t].pc = "idle" /\ th'[t].pc = "pk_query"

\* the accesses made inside the three functions are inside their critical
\* sections
LockedAccess ==
    \A t \in Threads :
        /\ AtAccounts(t) => accountsLock = t
        /\ AtCursor(t) => keyIndexLock = t
        /\ AtSeqNumMap(t) => seqNumLock = t

\* C14 as stated: every access to the registry map, to a rotation cursor and
\* to the sequence cache is made inside the critical section of its lock,
\* and no GetProposalKey call takes its Account receiver (reading the
\* cursor) while another thread is inside the KeyIndex critical section on
\* that Account.
C14_AsStated ==
    [][/\ LockedAccess
       /\ \A t \in Threads :
              CopiesAccount(t)
                  => \A u \in Threads \ {t} :
                         ~(AtCursor(u) /\ th[u].ref = th'[t].self)]_vars

\* ---- C15 ----
\* the locks thread t holds
HeldBy(t) ==
    {l \in {"accountsLock", "keyIndexLock", "seqNumLock"} :
        \/ l = "accountsLock" /\ accountsLock = t
        \/ l = "keyIndexLock" /\ keyIndexLock = t
        \/ l = "seqNumLock" /\ seqNumLock = t}

\* thread t waits in a Lock() call for a mutex another thread holds
Blocked(t) ==
    \/ th[t].pc = "ga_lock" /\ accountsLock # NoThread
    \/ th[t].pc = "ki_lock" /\ keyIndexLock # NoThread
    \/ th[t].pc = "sn_lock" /\ seqNumLock # NoThread

\* no thread holds two locks; a thread holds a lock only between the Lock()
\* and the deferred Unlock() of one function, so none outside a call, and
\* none while GetProposalKey runs its own lines; the threads inside calls
\* are never all blocked
C15_Safe ==
    /\ \A t \in Threads :
           /\ Cardinality(HeldBy(t)) <= 1
           /\ accountsLock = t
                 <=> th[t].pc \in {"ga_check", "ga_new", "ga_unlock"}
           /\ keyIndexLock = t
                 <=> th[t].pc \in {"ki_read", "ki_adv", "ki_unlock"}
           /\ seqNumLock = t
                 <=> th[t].pc \in {"sn_update", "sn_return"}
    /\ accountsLock \in Threads \cup {NoThread}
    /\ keyIndexLock \in Threads \cup {NoThread}
    /\ seqNumLock \in Threads \cup {NoThread}
    /\ (\E t \in Threads : th[t].pc # "idle")
           => \E t \in Threads : th[t].pc # "idle" /\ ~Blocked(t)

\* C15: no operation holds more than one of the three locks at once, every
\* lock acquired is released when the operation ends, by return or by
\* panic, and no interleaving deadlocks: under fair scheduling every call
\* that waits for a lock acquires it (a thread inside Lock() leaves it only
\* by acquiring the mutex it asked for, so the lock it then holds is that
\* one).
C15_LockDiscipline ==
    /\ []C15_Safe
    /\ \A t \in Threads :
           (th[t].pc \in {"ga_lock", "ki_lock", "sn_lock"}) ~> (HeldBy(t) # {})

\* C15 witness: a GetAccount call panicked while a second call for the
\* address waited for accountsLock, and the second call then acquired the
\* lock and returned an Account; a getSeqNum call held seqNumLock while
\* another waited for it, and both have returned; every call has ended
C15_Witness ==
    /\ Len(accLog) = 2
    /\ accLog[1].outcome = "panic"
    /\ accLog[1].overlap
    /\ accLog[2].outcome = "ok"
    /\ Len(seqLog) = 2
    /\ seqLog[1].overlap
    /\ \A t \in Threads : th[t].pc = "idle"

\* ---- C16 ----
\* thread t is inside the remote query of a GetProposalKey call (line 72)
InQuery(t) == th[t].pc = "pk_query"

\* no step of a GetProposalKey call up to the end of its remote query
\* (the call itself, the query's return or failure) changes the registry,
\* an Account, a lock or the sequence cache, and the receiver's cursor is
\* still the one the call copied
C16_QuerySteps ==
    \A t \in Threads :
        ((InQuery(t) \/ InQuery(t)') /\ th'[t] # th[t])
            => /\ UNCHANGED <<accounts, heap, accountsLock, keyIndexLock,
                              seqNumLock, seqNumMap>>
               /\ th'[t].a.nextKeyIndexIndex
                     = IF InQuery(t) THEN th[t].a.nextKeyIndexIndex
                       ELSE heap[th'[t].self].nextKeyIndexIndex

\* no later step of a GetProposalKey call whose query failed changes the
\* registry, a registered Account or the sequence cache
C16_FailedQuerySteps ==
    \A t \in Threads :
        (th[t].op = "GetProposalKey" /\ th[t].err /\ th'[t] # th[t])
            => UNCHANGED <<accounts, heap, seqNumMap>>

\* C16: a GetProposalKey call inside its remote query holds none of the
\* three locks, so no other caller waits for it, and the call has changed
\* neither a rotation cursor nor the sequence cache by then: a query that
\* stalls or fails has left both as they were, and the call of a failed
\* query leaves them so to its end.
C16_QueryOutsideLocks ==
    /\ [](\A t \in Threads : InQuery(t) => HeldBy(t) = {})
    /\ [][C16_QuerySteps /\ C16_FailedQuerySteps]_vars

\* C16 witness: while a GetProposalKey call on an Account is inside its
\* query, a KeyIndex call of another thread on that Account has gone through
\* keyIndexLock and advanced the registered cursor past the copied one
C16_Witness ==
    \E t \in Threads :
        /\ InQuery(t)
        /\ th[t].a.nextKeyIndexIndex # heap[th[t].self].nextKeyIndexIndex
        /\ \E j \in 1 .. Len(keyLog) : keyLog[j].ref = th[t].self

\* ---- C17 ----
\* the sequence cache has an entry for the pair (ad, ix)
HasEntry(m, ad, ix) == Has(m, ad) /\ Has(m[ad], ix)
\* a getSeqNum call for (ad, ix) has been through lines 105-109
Allocated(ad, ix) ==
    \/ PairLog(ad, ix) # <<>>
    \/ \E t \in Threads :
           th[t].pc = "sn_return" /\ th[t].address = ad /\ th[t].k.Index = ix

\* C17 as stated, state part: a pair has an entry exactly when a getSeqNum
\* call for it has been through the allocation; when no call is inside
\* getSeqNum the entry equals the value the last call for the pair returned,
\* and that value is the maximum of the values returned for the pair.
C17_EntryIsLastAndMax ==
    \A pr \in Pairs :
        LET log == PairLog(pr[1], pr[2])
        IN  /\ HasEntry(seqNumMap, pr[1], pr[2]) <=> Allocated(pr[1], pr[2])
            /\ (seqNumLock = NoThread /\ log # <<>>)
                   => /\ seqNumMap[pr[1]][pr[2]] = log[Len(log)].ret
                      /\ \A j \in 1 .. Len(log) :
                             Ge64(log[Len(log)].ret, log[j].ret)

\* C17 as stated, step part: no step removes an entry or decreases its value
C17_NeverDecreases ==
    \A pr \in Pairs :
        HasEntry(seqNumMap, pr[1], pr[2])
            => /\ HasEntry(seqNumMap', pr[1], pr[2])
               /\ Ge64(seqNumMap'[pr[1]][pr[2]], seqNumMap[pr[1]][pr[2]])

\* C17 as stated: entries exist exactly for the pairs getSeqNum was called
\* for, are never removed, never decrease, and equal the value most recently
\* returned for the pair, which is the maximum ever returned for it.
C17_AsStated ==
    /\ []C17_EntryIsLastAndMax
    /\ [][C17_NeverDecreases]_vars

\* C17 amended, state part: the same, the last value being the maximum of
\* the values returned since the last call that found 2^64 - 1 cached
C17_EntryIsLast ==
    \A pr \in Pairs :
        LET log == PairLog(pr[1], pr[2])
        IN  /\ HasEntry(seqNumMap, pr[1], pr[2]) <=> Allocated(pr[1], pr[2])
            /\ (seqNumLock = NoThread /\ log # <<>>)
                   => /\ seqNumMap[pr[1]][pr[2]] = log[Len(log)].ret
                      /\ \A i \in 1 .. Len(log) :
                             (\A n \in (i + 1) .. Len(log) : ~Wraps(log[n]))
                                 => Ge64(log[Len(log)].ret, log[i].ret)

\* C17 amended, step part: no step removes an entry, and a step that changes
\* its value increases it, or takes it from 2^64 - 1 to 0
C17_DecreasesOnlyByWrap ==
    \A pr \in Pairs :
        HasEntry(seqNumMap, pr[1], pr[2])
            => /\ HasEntry(seqNumMap', pr[1], pr[2])
               /\ \/ Ge64(seqNumMap'[pr[1]][pr[2]], seqNumMap[pr[1]][pr[2]])
                  \/ /\ IsMaxUint64(seqNumMap[pr[1]][pr[2]])
                     /\ seqNumMap'[pr[1]][pr[2]] = 0

\* C17, amended: a pair has a sequence cache entry exactly when a getSeqNum
\* call for it has been through the allocation of lines 105-109; an entry
\* is never removed; its value never decreases except that the increment
\* takes 2^64 - 1 to 0; whenever no call is inside getSeqNum it equals the
\* value most recently returned for the pair, which is the maximum of the
\* values returned since the last such wrap-around.
C17_CacheUpToWrap ==
    /\ []C17_EntryIsLast
    /\ [][C17_DecreasesOnlyByWrap]_vars

\* C17 witness: three calls for one pair have returned 0 (adopted), 1
\* (incremented) and 2^64 - 1 (adopted), the entry holds 2^64 - 1, no call
\* is in progress, and another pair has no entry
C17_Witness ==
    /\ seqNumLock = NoThread
    /\ \A t \in Threads : th[t].pc = "idle"
    /\ \E pr \in Pairs :
           LET log == PairLog(pr[1], pr[2])
           IN  /\ Len(log) = 3
               /\ log[1].ret = 0
               /\ log[2].ret = 1
               /\ IsMaxUint64(log[3].ret)
               /\ seqNumMap[pr[1]][pr[2]] = log[3].ret
    /\ \E pr \in Pairs : ~HasEntry(seqNumMap, pr[1], pr[2])

\* ---- C18 ----
\* this step is one of thread t
StepOf(t) == th'[t] # th[t]
\* this step of thread t belongs to a getSeqNum call (its start included)
GetSeqNumStep(t) ==
    \/ th[t].pc \in {"sn_lock", "sn_update", "sn_return"}
    \/ th[t].pc = "idle" /\ th'[t].pc = "sn_lock"
\* the pair that call is for
StepPair(t) ==
    IF th[t].pc = "idle" THEN <<th'[t].address, th'[t].k.Index>>
    ELSE <<th[t].address, th[t].k.Index>>
\* this step of thread t belongs to a KeyIndex call (its start included)
KeyIndexStep(t) ==
    \/ th[t].pc \in {"ki_lock", "ki_read", "ki_adv", "ki_unlock"}
    \/ th[t].pc = "idle" /\ th'[t].pc = "ki_lock"
\* the registered Account that call is on (0: none, a receiver copy)
StepRef(t) == IF th[t].pc = "idle" THEN th'[t].ref ELSE th[t].ref

\* a step of a getSeqNum call leaves the entry of every other pair as it
\* was, present or absent, and the registry and all Accounts too
C18_GetSeqNumFrame ==
    \A t \in Threads :
        (StepOf(t) /\ GetSeqNumStep(t))
            => /\ \A pr \in Pairs \ {StepPair(t)} :
                      /\ HasEntry(seqNumMap', pr[1], pr[2])
                            <=> HasEntry(seqNumMap, pr[1], pr[2])
                      /\ HasEntry(seqNumMap, pr[1], pr[2])
                            => seqNumMap'[pr[1]][pr[2]] = seqNumMap[pr[1]][pr[2]]
               /\ UNCHANGED <<accounts, heap>>

\* a step of a KeyIndex call leaves every other Account, the registry and
\* the sequence cache as they were
C18_KeyIndexFrame ==
    \A t \in Threads :
        (StepOf(t) /\ KeyIndexStep(t))
            => /\ Len(heap') = Len(heap)
               /\ \A p \in 1 .. Len(heap) : p # StepRef(t) => heap'[p] = heap[p]
               /\ UNCHANGED <<accounts, seqNumMap>>

\* C18: a getSeqNum call for a pair changes neither the presence nor the
\* value of any other pair's cache entry, nor the registry, nor any
\* Account's cursor; a KeyIndex call on an Account changes no other
\* Account's cursor and no cache entry.
C18_FrameEffects == [][C18_GetSeqNumFrame /\ C18_KeyIndexFrame]_vars

\* C18 witness: two Accounts are registered; a KeyIndex call has advanced
\* the cursor of one of them while the other is at its start index; two
\* getSeqNum calls for different pairs have made two cache entries
C18_Witness ==
    /\ Len(heap) = 2
    /\ \E j \in 1 .. Len(keyLog) :
           /\ keyLog[j].outcome = "ok"
           /\ keyLog[j].pos # keyLog[j].after
           /\ heap[keyLog[j].ref].nextKeyIndexIndex = keyLog[j].after
    /\ \E p \in Returned :
           /\ \A j \in 1 .. Len(keyLog) : keyLog[j].ref # p
           /\ heap[p].nextKeyIndexIndex = accLog[Creator(p)].randomIndex
    /\ Len(seqLog) = 2
    /\ <<seqLog[1].address, seqLog[1].Index>> # <<seqLog[2].address, seqLog[2].Index>>
    /\ \A j \in 1 .. 2 : HasEntry(seqNumMap, seqLog[j].address, seqLog[j].Index)

\* ---- C19 ----
\* the getSeqNum calls of the second process for the pair (ad, ix)
PeerPairLog(ad, ix) ==
    SelectSeq(peer.seqLog, LAMBDA e : e.address = ad /\ e.Index = ix)

\* the first calls for the pair pr in the two processes have returned, and
\* the remote ledger reported the same sequence number to both
SameLedgerState(pr) ==
    /\ PairLog(pr[1], pr[2]) # <<>>
    /\ PeerPairLog(pr[1], pr[2]) # <<>>
    /\ PairLog(pr[1], pr[2])[1].SequenceNumber
          = PeerPairLog(pr[1], pr[2])[1].SequenceNumber

\* no step of one process changes the sequence cache of the other
C19_NoCoordination ==
    /\ peer' # peer => seqNumMap' = seqNumMap
    /\ seqNumMap' # seqNumMap => peer' = peer

\* C19: the sequence caches of two processes are independent, so uniqueness
\* holds within one process only: when the first getSeqNum calls of the two
\* processes for a pair pass the same remote sequence number, both return
\* that same number.
C19_TwoProcessesCollide ==
    /\ [](\A pr \in Pairs :
             SameLedgerState(pr)
                 => /\ PairLog(pr[1], pr[2])[1].ret
                          = PeerPairLog(pr[1], pr[2])[1].ret
                    /\ PairLog(pr[1], pr[2])[1].ret
                          = PairLog(pr[1], pr[2])[1].SequenceNumber)
    /\ [][C19_NoCoordination]_vars

\* C19 witness: the two processes have each returned a sequence number for
\* one pair, and it is the same number
C19_Witness ==
    \E pr \in Pairs :
        /\ SameLedgerState(pr)
        /\ PairLog(pr[1], pr[2])[1].ret = PeerPairLog(pr[1], pr[2])[1].ret

====
